---- MODULE Spec2Model ----
(***************************************************************************)
(* A model of the `shortcut` row store (src/src/lib.rs): Store::new,       *)
(* Store::insert, Store::index and Store::find, together with the index    *)
(* (idx) and condition (cmp) modules that lib.rs calls.                    *)
(*                                                                         *)
(* Row identifiers are 0-based as in the code; the row with identifier i   *)
(* is rows[i + 1] because TLA+ sequences are 1-based.  A panic of the code *)
(* (assert_eq!, an out-of-bounds slice index) is modelled as the call      *)
(* ending with outcome "panic", the store keeping whatever the call had    *)
(* already written when it unwound.                                        *)
(***************************************************************************)
EXTENDS Integers, Sequences, FiniteSets

\* ------------------------------------------------------------------ bounds
\* The longest row sequence a store grows to (and the most pairs an index is fed).
MaxRows == 3
\* The longest condition list handed to find.
MaxConds == 2

\* The value type T: two distinct values.
Values == {"a", "b"}
\* The column counts a store is constructed with.
ColCounts == {1, 2}
\* The column numbers callers pass (2 is out of range for every store here).
ColumnArgs == 0..2
\* The lengths of the rows callers pass to insert.
RowLens == 0..3

RowsOfLen(n) == [1..n -> Values]
RowArgs == UNION {RowsOfLen(n) : n \in RowLens}

\* cmp::Comparison::Equal(cmp::Value::Const(v)) and the comparisons of the
\* wildcard arm of find's matches: Equal against another column's value.
Comparisons ==
    [kind : {"Const"}, v : Values, col : {0}]
        \cup [kind : {"Column"}, v : {"a"}, col : {0, 1}]
\* cmp::Condition { column, cmp }
Conditions == [column : ColumnArgs, cmp : Comparisons]

RECURSIVE SeqsUpTo(_, _)
SeqsUpTo(S, n) ==
    IF n = 0 THEN {<<>>}
    ELSE LET shorter == SeqsUpTo(S, n - 1)
         IN shorter \cup {Append(q, x) : q \in {p \in shorter : Len(p) = n - 1}, x \in S}
CondLists == SeqsUpTo(Conditions, MaxConds)

\* ------------------------------------------------------------------- idx
\* idx::HashIndex::new(): no pair recorded.  map[v] is the sequence of row
\* identifiers recorded under key v; <<>> stands for an absent key.
HashIndex_new == [num |-> 0, map |-> [v \in Values |-> <<>>]]

\* EqualityIndex::index(key, row): record one (value, row id) pair.
idx_index(idx, key, rowi) ==
    [num |-> idx.num + 1, map |-> [idx.map EXCEPT ![key] = Append(@, rowi)]]

\* EqualityIndex::lookup(key): the row ids recorded under key, in recording order.
idx_lookup(idx, key) == idx.map[key]

Keys(idx) == {v \in Values : idx.map[v] # <<>>}

\* EqualityIndex::estimate(): recorded rows / distinct keys, rounded up.
idx_estimate(idx) ==
    LET k == Cardinality(Keys(idx))
    IN IF k = 0 THEN 0 ELSE (idx.num + k - 1) \div k

\* The (value, row id) pairs an index holds, as a set.
Pairs(idx) == UNION {{<<v, idx.map[v][j]>> : j \in DOMAIN idx.map[v]} : v \in Values}

\* ------------------------------------------------------------------- cmp
\* Whether evaluating the condition reads the row out of bounds (a panic):
\* the condition's own column, or the column its operand names.
matches_panics(c, row) ==
    \/ c.column >= Len(row)
    \/ c.cmp.kind = "Column" /\ c.cmp.col >= Len(row)

\* Condition::matches(row): compares row[column] as the comparison says.
matches(c, row) ==
    IF c.cmp.kind = "Const"
    THEN row[c.column + 1] = c.cmp.v
    ELSE row[c.column + 1] = row[c.cmp.col + 1]

\* conds.iter().all(|c| c.matches(row)): conditions are evaluated in order and
\* the first false one ends the evaluation, so a later out-of-range condition is
\* not reached.  "true", "false" or "panic".
RECURSIVE all_match(_, _, _)
all_match(conds, row, ci) ==
    IF ci > Len(conds) THEN "true"
    ELSE IF matches_panics(conds[ci], row) THEN "panic"
    ELSE IF ~matches(conds[ci], row) THEN "false"
    ELSE all_match(conds, row, ci + 1)

\* ----------------------------------------------------------------- Store
\* A store value: the three fields of struct Store.
Store_new(n) == [cols |-> n, rows |-> <<>>, indices |-> <<>>]

\* (mutant) an entry already under k is kept.
Put_keep(f, k, v) == [x \in DOMAIN f \cup {k} |-> IF x \in DOMAIN f THEN f[x] ELSE v]

\* HashMap::insert(k, v): the entry under k is replaced.
Put(f, k, v) == [x \in DOMAIN f \cup {k} |-> IF x = k THEN v ELSE f[x]]

\* The result of a call: how it ended, the row ids find yielded (in order) and
\* the condition (1-based position in conds, 0 for none) whose index find used.
Ret(outcome, yielded, plan) == [outcome |-> outcome, yielded |-> yielded, plan |-> plan]

\* --- Store::find
\* (mutant) the planner's filter does not look at the comparison.
Servable_any_cmp(s, conds) ==
    {ci \in 1..Len(conds) : conds[ci].column \in DOMAIN s.indices}

\* The conditions that pass both filters of the planner: the column has an index,
\* and the comparison is Equal(Const(..)).
Servable(s, conds) ==
    {ci \in 1..Len(conds) :
        /\ conds[ci].column \in DOMAIN s.indices
        /\ conds[ci].cmp.kind = "Const"}

\* (mutant) of several equally cheap candidates the last one wins.
best_idx_last(s, conds) ==
    LET cand == Servable(s, conds)
        est(ci) == idx_estimate(s.indices[conds[ci].column])
    IN IF cand = {} THEN 0
       ELSE CHOOSE ci \in cand :
                \A cj \in cand : est(ci) < est(cj) \/ (est(ci) = est(cj) /\ ci >= cj)

\* min_by_key(estimate): the first of the candidates with the least estimate;
\* 0 stands for None.
best_idx(s, conds) ==
    LET cand == Servable(s, conds)
        est(ci) == idx_estimate(s.indices[conds[ci].column])
    IN IF cand = {} THEN 0
       ELSE CHOOSE ci \in cand :
                \A cj \in cand : est(ci) < est(cj) \/ (est(ci) = est(cj) /\ ci <= cj)

\* (mutant) the full scan runs from the last row to the first.
candidates_desc(s, conds) ==
    LET ci == best_idx(s, conds)
    IN IF ci = 0
       THEN [i \in 1..Len(s.rows) |-> Len(s.rows) - i]
       ELSE idx_lookup(s.indices[conds[ci].column], conds[ci].cmp.v)

\* (mutant) the full scan starts at row 1 instead of row 0.
candidates_from_one(s, conds) ==
    LET ci == best_idx(s, conds)
    IN IF ci = 0
       THEN [i \in 1..Len(s.rows) - 1 |-> i]
       ELSE idx_lookup(s.indices[conds[ci].column], conds[ci].cmp.v)

\* The candidate row ids: the chosen index's lookup, or 0..rows.len().
candidates(s, conds) ==
    LET ci == best_idx(s, conds)
    IN IF ci = 0
       THEN [i \in 1..Len(s.rows) |-> i - 1]
       ELSE idx_lookup(s.indices[conds[ci].column], conds[ci].cmp.v)

\* (mutant) the candidates are yielded without the final filter.
consume_unfiltered(s, conds, cand, i, acc, plan) ==
    IF \E j \in DOMAIN cand : cand[j] >= Len(s.rows)
    THEN Ret("panic", <<>>, plan)
    ELSE Ret("ok", cand, plan)

\* Consuming the returned iterator: each candidate is mapped to its row
\* (&self.rows[rowi], a panic when rowi is out of bounds) and kept when every
\* condition matches.
RECURSIVE consume(_, _, _, _, _, _)
consume(s, conds, cand, i, acc, plan) ==
    IF i > Len(cand) THEN Ret("ok", acc, plan)
    ELSE IF cand[i] >= Len(s.rows) THEN Ret("panic", acc, plan)
    ELSE LET m == all_match(conds, s.rows[cand[i] + 1], 1)
         IN IF m = "panic" THEN Ret("panic", acc, plan)
            ELSE consume(s, conds, cand, i + 1,
                         IF m = "true" THEN Append(acc, cand[i]) ELSE acc, plan)

\* The second match on conds[ci].cmp (lib.rs:107-110) has an unreachable!() arm
\* for a chosen condition that is not Equal(Const(..)).
find(s, conds) ==
    LET ci == best_idx(s, conds)
    IN IF ci > 0 /\ conds[ci].cmp.kind # "Const"
       THEN Ret("unreachable", <<>>, ci)
       ELSE consume(s, conds, candidates(s, conds), 1, <<>>, ci)

\* --- Store::insert
\* The attached columns a row of this length can feed.
Feedable(s, row) == {c \in DOMAIN s.indices : c < Len(row)}

\* (mutant) the row id is taken as if the row had been pushed already.
FeedIndices_next(s, row, fed) ==
    [c \in DOMAIN s.indices |->
        IF c \in fed THEN idx_index(s.indices[c], row[c + 1], Len(s.rows) + 1)
        ELSE s.indices[c]]

\* The indices after those under the columns `fed` were given (row[column], rowi).
FeedIndices(s, row, fed) ==
    [c \in DOMAIN s.indices |->
        IF c \in fed THEN idx_index(s.indices[c], row[c + 1], Len(s.rows))
        ELSE s.indices[c]]

\* The sets of indices insert may have fed when it returns or unwinds: all of
\* them when every attached column is inside the row; otherwise those the
\* HashMap's iteration reached before the first column outside the row, which
\* is any subset of the others, the iteration order being unspecified.
FedChoices(s, row) ==
    IF Len(row) # s.cols THEN {{}}
    ELSE IF Feedable(s, row) = DOMAIN s.indices THEN {DOMAIN s.indices}
    ELSE SUBSET Feedable(s, row)

insert_panics(s, row) ==
    \/ Len(row) # s.cols
    \/ Feedable(s, row) # DOMAIN s.indices

\* (mutant) the row length is not asserted.
insert_unchecked(s, row, fed) ==
    IF Feedable(s, row) # DOMAIN s.indices
    THEN [s EXCEPT !.indices = FeedIndices(s, row, fed)]
    ELSE [s EXCEPT !.indices = FeedIndices(s, row, fed), !.rows = Append(s.rows, row)]

\* (mutant) the assertion lets shorter rows through.
insert_atmost(s, row, fed) ==
    IF Len(row) > s.cols THEN s
    ELSE IF Feedable(s, row) # DOMAIN s.indices
    THEN [s EXCEPT !.indices = FeedIndices(s, row, fed)]
    ELSE [s EXCEPT !.indices = FeedIndices(s, row, fed), !.rows = Append(s.rows, row)]

\* (mutant) the row is put in front of the others.
insert_front(s, row, fed) ==
    IF Len(row) # s.cols THEN s
    ELSE IF insert_panics(s, row)
    THEN [s EXCEPT !.indices = FeedIndices(s, row, fed)]
    ELSE [s EXCEPT !.indices = FeedIndices(s, row, fed), !.rows = <<row>> \o s.rows]

\* The store after insert(row), `fed` being the indices it fed.
insert(s, row, fed) ==
    IF Len(row) # s.cols THEN s
    ELSE IF insert_panics(s, row)
    THEN [s EXCEPT !.indices = FeedIndices(s, row, fed)]
    ELSE [s EXCEPT !.indices = FeedIndices(s, row, fed), !.rows = Append(s.rows, row)]

\* --- Store::index
\* The back-fill loop panics at the first row that has no such column.
index_panics(s, column) == \E i \in 1..Len(s.rows) : column >= Len(s.rows[i])

\* (mutant) the back-fill feeds the rows from the last to the first.
RECURSIVE populate_desc(_, _, _, _)
populate_desc(idx, rows, column, i) ==
    IF i > Len(rows) THEN idx
    ELSE populate_desc(idx_index(idx, rows[Len(rows) + 1 - i][column + 1], Len(rows) - i),
                       rows, column, i + 1)

\* (mutant) the back-fill stops before the last row.
RECURSIVE populate_short(_, _, _, _)
populate_short(idx, rows, column, i) ==
    IF i >= Len(rows) THEN idx
    ELSE populate_short(idx_index(idx, rows[i][column + 1], i - 1), rows, column, i + 1)

RECURSIVE populate(_, _, _, _)
populate(idx, rows, column, i) ==
    IF i > Len(rows) THEN idx
    ELSE populate(idx_index(idx, rows[i][column + 1], i - 1), rows, column, i + 1)

\* (mutant) the new index is attached without the back-fill.
index_unpopulated(s, column) ==
    IF index_panics(s, column) THEN s
    ELSE [s EXCEPT !.indices = Put(s.indices, column, HashIndex_new)]

\* The store after index(column, HashIndex::new()).
index(s, column) ==
    IF index_panics(s, column) THEN s
    ELSE [s EXCEPT !.indices = Put(s.indices, column, populate(HashIndex_new, s.rows, column, 1))]

\* ------------------------------------------------------- the state machine
\* cols, rows, indices: the fields of the Store.  pc, call, ret: the single
\* caller, which issues one call at a time and takes its result (or catches its
\* panic) before the next.  inserted: the rows whose insert returned normally.
\* runs, probe: three stores fed the same rows, and one query put to all three
\* (used by SpecRuns only).  todo: the attached columns the loop of a running
\* insert has not visited yet (used by SpecSteps only).
VARIABLES cols, rows, indices, pc, call, ret, inserted, runs, probe, todo

vars == <<cols, rows, indices, pc, call, ret, inserted, runs, probe, todo>>

NoRuns == [column |-> 0, lateAt |-> 0]
NoProbe == [taken |-> FALSE]

\* The Store the variables hold.
Store == [cols |-> cols, rows |-> rows, indices |-> indices]

\* A call: the operation and its arguments; replaced tells whether the column
\* given to index() had an index already.
NoCall == [op |-> "none", row |-> <<>>, column |-> 0, conds |-> <<>>, replaced |-> FALSE]
NoRet == Ret("none", <<>>, 0)

\* Store::new(cols)
Init ==
    /\ cols \in ColCounts
    /\ rows = Store_new(cols).rows
    /\ indices = Store_new(cols).indices
    /\ pc = "ready"
    /\ call = NoCall
    /\ ret = NoRet
    /\ inserted = <<>>
    /\ runs = NoRuns
    /\ probe = NoProbe
    /\ todo = {}

\* store.insert(row)
Insert ==
    /\ pc = "ready"
    /\ \E row \in RowArgs :
        /\ Len(row) = cols =>
              /\ Len(rows) < MaxRows
              /\ \A c \in DOMAIN indices : indices[c].num < MaxRows
        /\ \E fed \in FedChoices(Store, row) :
            LET s == insert(Store, row, fed)
                ok == ~insert_panics(Store, row)
            IN /\ rows' = s.rows
               /\ indices' = s.indices
               /\ ret' = Ret(IF ok THEN "ok" ELSE "panic", <<>>, 0)
               /\ inserted' = IF ok THEN Append(inserted, row) ELSE inserted
        /\ call' = [NoCall EXCEPT !.op = "insert", !.row = row]
    /\ pc' = "returned"
    /\ UNCHANGED <<cols, runs, probe, todo>>

\* store.index(column, idx::HashIndex::new())
Index ==
    /\ pc = "ready"
    /\ \E column \in ColumnArgs :
        LET s == index(Store, column)
        IN /\ rows' = s.rows
           /\ indices' = s.indices
           /\ ret' = Ret(IF index_panics(Store, column) THEN "panic" ELSE "ok", <<>>, 0)
           /\ call' = [NoCall EXCEPT !.op = "index", !.column = column,
                                     !.replaced = column \in DOMAIN indices]
    /\ pc' = "returned"
    /\ UNCHANGED <<cols, inserted, runs, probe, todo>>

\* (mutant) the lookup takes the row ids out of the index it reads.
Find_draining ==
    /\ pc = "ready"
    /\ \E conds \in CondLists :
        /\ ret' = find(Store, conds)
        /\ call' = [NoCall EXCEPT !.op = "find", !.conds = conds]
        /\ indices' =
             LET ci == best_idx(Store, conds)
             IN IF ci = 0 THEN indices
                ELSE [indices EXCEPT ![conds[ci].column].map[conds[ci].cmp.v] = <<>>]
    /\ pc' = "returned"
    /\ UNCHANGED <<cols, rows, inserted, runs, probe, todo>>

\* store.find(&conds), the iterator consumed to its end
Find ==
    /\ pc = "ready"
    /\ \E conds \in CondLists :
        /\ ret' = find(Store, conds)
        /\ call' = [NoCall EXCEPT !.op = "find", !.conds = conds]
    /\ pc' = "returned"
    /\ UNCHANGED <<cols, rows, indices, inserted, runs, probe, todo>>

\* store.find(&conds) once more with the same conditions, nothing having been
\* called in between (as tests::it_filters does).
Requery ==
    /\ pc = "returned"
    /\ call.op = "find"
    /\ ret' = find(Store, call.conds)
    /\ pc' = "requeried"
    /\ UNCHANGED <<cols, rows, indices, call, inserted, runs, probe, todo>>

\* The caller has the result (the iterator is dropped, a panic is caught) and is
\* free to call again.
Return ==
    /\ pc \in {"returned", "requeried"}
    /\ pc' = "ready"
    /\ call' = NoCall
    /\ ret' = NoRet
    /\ UNCHANGED <<cols, rows, indices, inserted, runs, probe, todo>>

Next == Insert \/ Index \/ Find \/ Requery \/ Return

Spec == Init /\ [][Next]_vars

\* ------------------------------------------------ three runs over the same rows
\* The tests it_filters, it_filters_with_indices and it_filters_with_late_indices
\* side by side: a store with no index, one with an index on runs.column
\* attached before any insert, and one where it is attached later (lateAt is
\* the row count at that moment, -1 before).
RunNames == {"none", "before", "after"}

RunsInit ==
    /\ cols \in ColCounts
    /\ \E C \in 0..cols - 1 :
        runs = [column |-> C, lateAt |-> -1,
                store |-> [none |-> Store_new(cols),
                           before |-> index(Store_new(cols), C),
                           after |-> Store_new(cols)]]
    /\ probe = NoProbe
    /\ rows = <<>> /\ indices = <<>> /\ inserted = <<>>
    /\ pc = "ready" /\ call = NoCall /\ ret = NoRet
    /\ todo = {}

mainVars == <<cols, rows, indices, pc, call, ret, inserted, todo>>

\* The same row is inserted into the three stores.
RunsInsert ==
    /\ \E row \in RowArgs :
        /\ Len(row) = cols => Len(runs.store["none"].rows) < MaxRows
        /\ \E fn \in FedChoices(runs.store["none"], row),
              fb \in FedChoices(runs.store["before"], row),
              fa \in FedChoices(runs.store["after"], row) :
            runs' = [runs EXCEPT !.store =
                        [none |-> insert(runs.store["none"], row, fn),
                         before |-> insert(runs.store["before"], row, fb),
                         after |-> insert(runs.store["after"], row, fa)]]
    /\ probe' = NoProbe
    /\ UNCHANGED mainVars

\* The third store gets its index.
RunsIndexLate ==
    /\ runs.lateAt = -1
    /\ runs' = [runs EXCEPT !.lateAt = Len(runs.store["after"].rows),
                            !.store["after"] = index(runs.store["after"], runs.column)]
    /\ probe' = NoProbe
    /\ UNCHANGED mainVars

\* find([{column: C, Equal(Const(v))}]) on each store.
RunsFind ==
    /\ \E v \in Values :
        LET q == <<[column |-> runs.column, cmp |-> [kind |-> "Const", v |-> v, col |-> 0]]>>
        IN probe' = [taken |-> TRUE, v |-> v,
                     found |-> [r \in RunNames |-> find(runs.store[r], q)]]
    /\ UNCHANGED runs
    /\ UNCHANGED mainVars

RunsNext == RunsInsert \/ RunsIndexLate \/ RunsFind

SpecRuns == RunsInit /\ [][RunsNext]_vars

\* ------------------------------------------------- insert, statement by statement
\* Store::insert taken apart into its statements, to see the states inside one
\* call: the assertion, the loop over the indices (one index per step, in the
\* HashMap's unspecified order) and the push.

\* lib.rs:125-126: assert_eq!(row.len(), self.cols); let rowi = self.rows.len();
InsertBegin ==
    /\ pc = "ready"
    /\ \E row \in RowArgs :
        /\ Len(row) = cols =>
              /\ Len(rows) < MaxRows
              /\ \A c \in DOMAIN indices : indices[c].num < MaxRows
        /\ call' = [NoCall EXCEPT !.op = "insert", !.row = row]
        /\ IF Len(row) # cols
           THEN /\ pc' = "returned"
                /\ ret' = Ret("panic", <<>>, 0)
                /\ todo' = {}
           ELSE /\ pc' = "feeding"
                /\ ret' = NoRet
                /\ todo' = DOMAIN indices
    /\ UNCHANGED <<cols, rows, indices, inserted, runs, probe>>

\* lib.rs:127-130: idx.index(row[*column].clone(), rowi) for the next index.
InsertFeed ==
    /\ pc = "feeding"
    /\ \E c \in todo :
        IF c >= Len(call.row)
        THEN /\ pc' = "returned"
             /\ ret' = Ret("panic", <<>>, 0)
             /\ todo' = {}
             /\ UNCHANGED indices
        ELSE /\ indices' = [indices EXCEPT ![c] = idx_index(@, call.row[c + 1], Len(rows))]
             /\ todo' = todo \ {c}
             /\ UNCHANGED <<pc, ret>>
    /\ UNCHANGED <<cols, rows, call, inserted, runs, probe>>

\* lib.rs:131: self.rows.push(row);
InsertPush ==
    /\ pc = "feeding"
    /\ todo = {}
    /\ rows' = Append(rows, call.row)
    /\ inserted' = Append(inserted, call.row)
    /\ pc' = "returned"
    /\ ret' = Ret("ok", <<>>, 0)
    /\ UNCHANGED <<cols, indices, call, runs, probe, todo>>

StepsNext == InsertBegin \/ InsertFeed \/ InsertPush \/ Index \/ Return

SpecSteps == Init /\ [][StepsNext]_vars

TypeOK ==
    /\ cols \in ColCounts
    /\ Len(rows) <= MaxRows
    /\ DOMAIN indices \subseteq ColumnArgs
    /\ pc \in {"ready", "feeding", "returned", "requeried"}
    /\ todo \subseteq DOMAIN indices

\* ------------------------------------------------------------ the claims
\* What the index of an attached column should hold: one pair per row.
ExpectedPairs(c) == {<<rows[i][c + 1], i - 1>> : i \in 1..Len(rows)}

NoPairTwice(idx) ==
    \A v \in Values : \A j, k \in DOMAIN idx.map[v] :
        j # k => idx.map[v][j] # idx.map[v][k]

\* C1: in every reachable state, the index of every attached column records
\* exactly the pairs (rows[id][column], id) for 0 <= id < rows.len(): none
\* missing, none extra, none twice.
C1_IndexExact ==
    \A c \in DOMAIN indices :
        /\ Pairs(indices[c]) = ExpectedPairs(c)
        /\ NoPairTwice(indices[c])
        /\ indices[c].num = Len(rows)

Range(q) == {q[j] : j \in DOMAIN q}

\* C2: index transparency.  Over the same inserted rows, an equality query on
\* column C returns the same set of rows with no index on C, with an index
\* attached before the rows were inserted, and with one attached afterwards.
C2_Transparent ==
    probe.taken =>
        /\ \A r \in RunNames : runs.store[r].rows = runs.store["none"].rows
        /\ \A r \in RunNames : probe.found[r].outcome = "ok"
        /\ Range(probe.found["before"].yielded) = Range(probe.found["none"].yielded)
        /\ Range(probe.found["after"].yielded) = Range(probe.found["none"].yielded)

\* The query was answered by the full scan in the first store and by the index
\* in the other two, the late index having been attached over existing rows,
\* and it selected some rows but not all.
C2_Witness ==
    /\ probe.taken
    /\ runs.lateAt >= 2
    /\ Len(runs.store["none"].rows) > runs.lateAt
    /\ probe.found["none"].plan = 0
    /\ probe.found["before"].plan = 1
    /\ probe.found["after"].plan = 1
    /\ Len(probe.found["none"].yielded) >= 2
    /\ Len(probe.found["none"].yielded) < Len(runs.store["none"].rows)

\* A condition all of whose column references are inside the store's columns.
InRange(c) == c.column < cols /\ (c.cmp.kind = "Column" => c.cmp.col < cols)

AllInRange(conds) == \A ci \in DOMAIN conds : InRange(conds[ci])

\* The row with identifier id satisfies every condition.
Satisfies(id, conds) == \A ci \in DOMAIN conds : matches(conds[ci], rows[id + 1])

Occurrences(q, x) == Cardinality({j \in DOMAIN q : q[j] = x})

\* C3: completeness.  After find(conds) with in-range conditions, every row
\* that satisfies every condition was yielded exactly once.
C3_Complete ==
    (pc = "returned" /\ call.op = "find" /\ AllInRange(call.conds)) =>
        \A id \in 0..Len(rows) - 1 :
            Satisfies(id, call.conds) => Occurrences(ret.yielded, id) = 1

\* An index drove the find, and some row that satisfies the conditions exists
\* beside one that does not.
C3_Witness ==
    /\ pc = "returned" /\ call.op = "find" /\ AllInRange(call.conds)
    /\ ret.plan > 0
    /\ Len(ret.yielded) >= 2
    /\ Len(ret.yielded) < Len(rows)

\* C4: soundness.  Every row find yielded is a row of the store and satisfies
\* every condition, the one that chose the index included, whether the
\* candidates came from an index or from the full scan.
C4_Sound ==
    (pc = "returned" /\ call.op = "find") =>
        \A j \in DOMAIN ret.yielded :
            /\ ret.yielded[j] < Len(rows)
            /\ \A ci \in DOMAIN call.conds :
                  /\ ~matches_panics(call.conds[ci], rows[ret.yielded[j] + 1])
                  /\ matches(call.conds[ci], rows[ret.yielded[j] + 1])

\* An index drove the find and its lookup gave a candidate that another
\* condition then rejected, while a second candidate was yielded.
C4_Witness ==
    /\ pc = "returned" /\ call.op = "find"
    /\ ret.plan > 0
    /\ Len(call.conds) = 2
    /\ Len(ret.yielded) = 1
    /\ Len(candidates(Store, call.conds)) = 2

\* C5: find with no conditions yields exactly the rows whose insert succeeded,
\* in insertion order (ascending row id), whatever indices are attached.
C5_Cardinality ==
    (pc = "returned" /\ call.op = "find" /\ call.conds = <<>>) =>
        /\ ret.outcome = "ok"
        /\ ret.yielded = [i \in 1..Len(inserted) |-> i - 1]
        /\ \A i \in 1..Len(inserted) : rows[ret.yielded[i] + 1] = inserted[i]

C5_Witness ==
    /\ pc = "returned" /\ call.op = "find" /\ call.conds = <<>>
    /\ Len(inserted) = MaxRows
    /\ DOMAIN indices = {0, 1}
    /\ inserted[1] # inserted[2]
    /\ Len(ret.yielded) = MaxRows

\* C6: an insert of a row of the wrong length is rejected and leaves the rows
\* and every attached index as they were.
C6_ShapeRejected ==
    [][(call'.op = "insert" /\ Len(call'.row) # cols) =>
          /\ ret'.outcome = "panic"
          /\ rows' = rows
          /\ indices' = indices
          /\ inserted' = inserted]_vars

\* A wrong-length row was rejected on a store that holds rows and an index.
C6_Witness ==
    /\ pc = "returned" /\ call.op = "insert" /\ Len(call.row) # cols
    /\ ret.outcome = "panic"
    /\ Len(rows) >= 1
    /\ \E c \in DOMAIN indices : indices[c].num >= 1

\* C7: index() with column >= cols fails in every state, the empty store
\* included, and no index is ever attached under an out-of-range column.
C7_IndexColumnChecked ==
    /\ (pc = "returned" /\ call.op = "index" /\ call.column >= cols) =>
          ret.outcome = "panic"
    /\ \A c \in DOMAIN indices : c < cols

\* C8: find with a condition whose column >= cols reports a failure in every
\* state, never a silent (possibly empty) result.
C8_FindColumnChecked ==
    (/\ pc = "returned" /\ call.op = "find"
     /\ \E ci \in DOMAIN call.conds : call.conds[ci].column >= cols) =>
        ret.outcome = "panic"

\* C9: rows are append-only: the row sequence never shrinks and a row, once
\* inserted under an identifier, stays the same under it in every later state.
C9_AppendOnly ==
    [][/\ Len(rows') >= Len(rows)
       /\ \A i \in 1..Len(rows) : rows'[i] = rows[i]]_vars

\* An insert succeeded on a store that already held rows and an index.
C9_Witness ==
    /\ pc = "returned" /\ call.op = "insert" /\ ret.outcome = "ok"
    /\ Len(rows) >= 2
    /\ rows[1] # rows[Len(rows)]
    /\ DOMAIN indices # {}

\* C10: every stored row has exactly cols values, and cols never changes.
C10_RowShape ==
    /\ [](\A i \in 1..Len(rows) : Len(rows[i]) = cols)
    /\ [][cols' = cols]_vars

\* Rows were stored after shorter and longer ones had been offered.
C10_Witness ==
    /\ Len(rows) >= 2
    /\ pc = "returned" /\ call.op = "insert" /\ Len(call.row) > cols

\* C11: find is a pure read.  A find leaves the rows, the indices and the
\* column count as they were, and a second find with the same conditions,
\* nothing having been called in between, yields the same row ids in the same
\* order and ends the same way.
C11_PureRead ==
    [][/\ call'.op = "find" => (rows' = rows /\ indices' = indices /\ cols' = cols)
       /\ (pc' = "requeried" /\ call'.conds = call.conds) => ret' = ret]_vars

\* A query answered through an index was asked twice and selected some rows.
C11_Witness ==
    /\ pc = "requeried"
    /\ ret.plan > 0
    /\ Len(ret.yielded) >= 2
    /\ Len(ret.yielded) < Len(rows)

\* The condition's column has an index and its comparison is Equal(Const(v)).
Qualifies(c) == c.column \in DOMAIN indices /\ c.cmp.kind = "Const"

Qualifying(conds) == {ci \in DOMAIN conds : Qualifies(conds[ci])}

EstimateOf(c) == idx_estimate(indices[c.column])

\* C12: planner selection.  Among the conditions whose column is indexed and
\* whose comparison is Equal(Const(v)), find uses the index of the one with the
\* least estimate, the first in the list among equals; its candidates are that
\* one index's lookup.
C12_PlannerMin ==
    (pc = "returned" /\ call.op = "find" /\ Qualifying(call.conds) # {}) =>
        /\ ret.plan \in Qualifying(call.conds)
        /\ \A cj \in Qualifying(call.conds) :
              /\ EstimateOf(call.conds[ret.plan]) <= EstimateOf(call.conds[cj])
              /\ EstimateOf(call.conds[ret.plan]) = EstimateOf(call.conds[cj])
                    => ret.plan <= cj
        /\ candidates(Store, call.conds) =
              idx_lookup(indices[call.conds[ret.plan].column], call.conds[ret.plan].cmp.v)

\* Two conditions qualified and the second, on the index with the smaller
\* estimate, was used.
C12_Witness ==
    /\ pc = "returned" /\ call.op = "find"
    /\ Qualifying(call.conds) = {1, 2}
    /\ EstimateOf(call.conds[2]) < EstimateOf(call.conds[1])
    /\ ret.plan = 2
    /\ ret.outcome = "ok"

\* Two conditions qualified with equal estimates on different indices and the
\* first was used.
C12_WitnessTie ==
    /\ pc = "returned" /\ call.op = "find"
    /\ Qualifying(call.conds) = {1, 2}
    /\ call.conds[1].column # call.conds[2].column
    /\ EstimateOf(call.conds[2]) = EstimateOf(call.conds[1])
    /\ Len(rows) >= 2
    /\ ret.plan = 1

\* C13: full-scan fallback.  Only a condition on an indexed column with an
\* Equal(Const(v)) comparison is ever chosen by the planner; when no condition
\* qualifies, no index is used and the candidates are 0 .. rows.len() - 1
\* in ascending order.
C13_FullScan ==
    (pc = "returned" /\ call.op = "find") =>
        /\ ret.plan > 0 => Qualifies(call.conds[ret.plan])
        /\ Qualifying(call.conds) = {} =>
              /\ ret.plan = 0
              /\ candidates(Store, call.conds) = [i \in 1..Len(rows) |-> i - 1]

\* Neither condition qualified, one for its comparison (on an indexed column)
\* and one for its column (no index): the full scan answered the query.
C13_Witness ==
    /\ pc = "returned" /\ call.op = "find"
    /\ Len(call.conds) = 2
    /\ call.conds[1].column \in DOMAIN indices /\ call.conds[1].cmp.kind = "Column"
    /\ call.conds[2].column \notin DOMAIN indices /\ call.conds[2].cmp.kind = "Const"
    /\ ret.plan = 0
    /\ ret.outcome = "ok"
    /\ Len(rows) >= 2
    /\ Len(ret.yielded) >= 1

StrictlyAscending(q) == \A j, k \in DOMAIN q : j < k => q[j] < q[k]

\* C14: back-fill determinism.  Over the same rows, the index attached before
\* the first insert and the index attached at any later point are in the same
\* state: the same pairs, recorded in the same ascending row-id order.
C14_BackfillSame ==
    runs.lateAt >= 0 =>
        /\ runs.store["after"].indices[runs.column] =
              runs.store["before"].indices[runs.column]
        /\ \A v \in Values :
              StrictlyAscending(runs.store["after"].indices[runs.column].map[v])
        /\ runs.store["after"].indices[runs.column].num = Len(runs.store["after"].rows)

\* The late index was attached between inserts: it was back-filled with rows
\* and then fed by insert, and it holds two keys, one of them for several rows.
C14_Witness ==
    /\ runs.lateAt >= 1
    /\ Len(runs.store["after"].rows) > runs.lateAt
    /\ \A v \in Values : runs.store["after"].indices[runs.column].map[v] # <<>>
    /\ \E v \in Values : Len(runs.store["after"].indices[runs.column].map[v]) >= 2

\* C15: index() on a column that has an index replaces it.  After a successful
\* index(column) the column has one index, holding exactly one pair per
\* existing row and nothing of the index it replaced; the indices of the other
\* columns are unchanged; and no step ever removes a column from the indexed
\* ones.
C15_Replace ==
    [][/\ DOMAIN indices \subseteq DOMAIN indices'
       /\ (pc = "ready" /\ call'.op = "index" /\ ret'.outcome = "ok") =>
             /\ DOMAIN indices' = DOMAIN indices \cup {call'.column}
             /\ Pairs(indices'[call'.column]) =
                   {<<rows'[i][call'.column + 1], i - 1>> : i \in 1..Len(rows')}
             /\ NoPairTwice(indices'[call'.column])
             /\ indices'[call'.column].num = Len(rows')
             /\ \A c \in DOMAIN indices \ {call'.column} : indices'[c] = indices[c]]_vars

\* An index was replaced on a store that holds rows and an index on another
\* column.
C15_Witness ==
    /\ pc = "returned" /\ call.op = "index" /\ call.replaced
    /\ ret.outcome = "ok"
    /\ Len(rows) >= 2
    /\ \E c \in DOMAIN indices : c # call.column /\ indices[c].num >= 2

\* Every row id an attached index holds is the id of a stored row.
IdsInRows ==
    \A c \in DOMAIN indices : \A v \in Values : \A j \in DOMAIN indices[c].map[v] :
        indices[c].map[v][j] < Len(rows)

\* C16: inside an insert that succeeds (the row has cols values and every
\* attached column is inside it), the row is appended before any index is fed:
\* at no moment does an index hold the new row id while the row sequence does
\* not contain that row.
C16_RowBeforeFeed ==
    (pc = "feeding" /\ \A c \in DOMAIN indices : c < cols) => IdsInRows

\* C17: the unreachable!() arm of find is never executed: whatever the store
\* and the conditions, the condition the planner chose has an Equal(Const(v))
\* comparison.
C17_NeverUnreachable ==
    (pc # "ready" /\ call.op = "find") =>
        /\ ret.outcome # "unreachable"
        /\ ret.plan > 0 => call.conds[ret.plan].cmp.kind = "Const"

\* An index was used although an earlier condition, on an indexed column too,
\* compares with something other than a constant.
C17_Witness ==
    /\ pc = "returned" /\ call.op = "find"
    /\ Len(call.conds) = 2
    /\ call.conds[1].column \in DOMAIN indices /\ call.conds[1].cmp.kind = "Column"
    /\ ret.plan = 2
    /\ ret.outcome = "ok"
    /\ Len(rows) >= 2

\* C18: in every reachable state, also after calls that failed part-way, every
\* row id an attached index holds is below rows.len(), so that a find with
\* in-range conditions never reads a row outside the row sequence.
C18_NoDanglingId ==
    /\ IdsInRows
    /\ (pc # "ready" /\ call.op = "find" /\ AllInRange(call.conds)) => ret.outcome = "ok"

\* The same, seen from find alone: a find with in-range conditions ends normally.
C18_FindInBounds ==
    (pc # "ready" /\ call.op = "find" /\ AllInRange(call.conds)) => ret.outcome = "ok"

\* The row ids from id upwards whose rows satisfy the conditions, ascending.
RECURSIVE ScanFrom(_, _)
ScanFrom(conds, id) ==
    IF id >= Len(rows) THEN <<>>
    ELSE (IF Satisfies(id, conds) THEN <<id>> ELSE <<>>) \o ScanFrom(conds, id + 1)

\* The elements of q from position j on whose rows satisfy the conditions, in
\* q's order.
RECURSIVE KeepSatisfying(_, _, _)
KeepSatisfying(q, conds, j) ==
    IF j > Len(q) THEN <<>>
    ELSE (IF Satisfies(q[j], conds) THEN <<q[j]>> ELSE <<>>) \o KeepSatisfying(q, conds, j + 1)

\* C19: order preservation.  find yields its candidates in their order, and
\* whatever indices are attached it yields the same row ids in the same
\* ascending order as the full scan filtered by the conditions.
C19_ScanOrder ==
    (pc = "returned" /\ call.op = "find") =>
        /\ ret.yielded = find([Store EXCEPT !.indices = <<>>], call.conds).yielded
        /\ StrictlyAscending(ret.yielded)
        /\ AllInRange(call.conds) => ret.yielded = ScanFrom(call.conds, 0)
        /\ (AllInRange(call.conds) /\ ret.outcome = "ok") =>
              ret.yielded = KeepSatisfying(candidates(Store, call.conds), call.conds, 1)

\* An index lookup gave several candidates, a further condition removed one of
\* them, and what was yielded skips rows of the store.
C19_Witness ==
    /\ pc = "returned" /\ call.op = "find" /\ AllInRange(call.conds)
    /\ ret.plan > 0
    /\ Len(candidates(Store, call.conds)) = 3
    /\ Len(ret.yielded) = 2
    /\ ret.yielded[2] = Len(rows) - 1
    /\ ret.yielded[1] = 0

====
